---- MODULE Spec2Model ----
(***************************************************************************)
(* A model of the excel-deduplicator (src/main.py): class Deduplicator,    *)
(* its helpers and its run() loop.                                         *)
(*                                                                         *)
(* Text is modelled as sequences of one-character strings, so that the     *)
(* regular expressions, str.strip / str.replace, float() and str.format of *)
(* the source are computed character by character and not assumed.         *)
(* A spreadsheet cell is a record [t, s, n]: text (t = "str", s = the      *)
(* characters), an absent cell (t = "nan": pandas' NaN), or a number       *)
(* (t = "float" / "int", n = the value in hundredths / the integer).       *)
(* Python's Optional is a sequence of length <= 1: None == <<>>.           *)
(***************************************************************************)
EXTENDS Integers, Sequences, FiniteSets, TLC

VARIABLES
    new_files,    \* self.new_files: the files of the "new" directory, in listing order
    old_files,    \* self.old_files: the files of the "old" directory, in listing order
    idx,          \* position of run()'s for loop in new_files
    pc,           \* the per-file state of run(), or the position of a single call
    df,           \* run()'s local df
    stats,        \* run()'s local stats (a FileStats)
    columns,      \* run()'s local columns (Optional Columns)
    oldfiles,     \* run()'s local oldfiles (a SameDomainFiles)
    file_stats,   \* self.file_stats
    dataframes,   \* self.dataframes
    saved,        \* the files written by __save_to_csv, in order
    stats_csv,    \* the content of ./stats/stats.csv (Optional)
    exc,          \* the uncaught exception that ended the process (Optional)
    entered,      \* history: the states run() entered for the current file
    compared,     \* history: the (left, right) tables merged by __drop_duplicates
    arg,          \* the argument of a single call (the specifications of one method)
    ret           \* the value a single call returned

vars == <<new_files, old_files, idx, pc, df, stats, columns, oldfiles, file_stats,
          dataframes, saved, stats_csv, exc, entered, compared, arg, ret>>

runVars == <<new_files, old_files, idx, df, stats, columns, oldfiles, file_stats,
             dataframes, saved, stats_csv, exc, entered, compared>>

None == <<>>
Some(x) == <<x>>

-----------------------------------------------------------------------------
(* Characters and text.                                                    *)

UpperCase == <<"A","B","C","D","E","F","G","H","I","J","K","L","M",
               "N","O","P","Q","R","S","T","U","V","W","X","Y","Z">>
LowerCase == <<"a","b","c","d","e","f","g","h","i","j","k","l","m",
               "n","o","p","q","r","s","t","u","v","w","x","y","z">>
DigitChars == <<"0","1","2","3","4","5","6","7","8","9">>

Range(s) == {s[i] : i \in DOMAIN s}

Max(S) == CHOOSE x \in S : \A y \in S : x >= y
Min(S) == CHOOSE x \in S : \A y \in S : x <= y

IsUpper(c) == c \in Range(UpperCase)
IsLetter(c) == c \in Range(UpperCase) \cup Range(LowerCase)
IsDigit(c) == c \in Range(DigitChars)
\* \w of Python's re on str
IsWord(c) == IsLetter(c) \/ IsDigit(c) \/ c = "_"

\* re.I: characters compare by their lower-case form
Lower(c) == IF IsUpper(c) THEN LowerCase[CHOOSE i \in 1..26 : UpperCase[i] = c] ELSE c

DigitVal(c) == (CHOOSE i \in 1..10 : DigitChars[i] = c) - 1

\* s[a..b], empty when a > b
Slice(s, a, b) == [i \in 1..(IF b >= a THEN b - a + 1 ELSE 0) |-> s[a + i - 1]]

\* str.strip(chars): the characters of `chars` removed at both ends
StripChars(s, chars) ==
    LET keep == {i \in DOMAIN s : s[i] \notin chars}
    IN  IF keep = {} THEN <<>>
        ELSE Slice(s, CHOOSE i \in keep : \A j \in keep : i <= j,
                      CHOOSE i \in keep : \A j \in keep : i >= j)

\* str.strip()
Strip(s) == StripChars(s, {" ", "\t", "\n", "\r"})

\* str.replace(c, "") for a single character c
RemoveChar(s, c) == SelectSeq(s, LAMBDA x : x # c)

\* re.search(<literal>, s, re.I): `lit` occurs in s, case-insensitively
ContainsCI(s, lit) ==
    \E i \in 0..(Len(s) - Len(lit)) :
        \A j \in 1..Len(lit) : Lower(s[i + j]) = Lower(lit[j])

\* Series.str.contains("-"): a literal occurrence of one character
ContainsChar(s, c) == \E i \in DOMAIN s : s[i] = c

\* s ends with `lit`, case-insensitively
EndsWithCI(s, lit) ==
    /\ Len(s) >= Len(lit)
    /\ \A j \in 1..Len(lit) : Lower(s[Len(s) - Len(lit) + j]) = Lower(lit[j])

RECURSIVE NatToStr(_)
NatToStr(n) == IF n < 10 THEN <<DigitChars[n + 1]>>
               ELSE NatToStr(n \div 10) \o <<DigitChars[(n % 10) + 1]>>

RECURSIVE StrToNat(_)
StrToNat(s) == IF s = <<>> THEN 0
               ELSE 10 * StrToNat(Slice(s, 1, Len(s) - 1)) + DigitVal(s[Len(s)])

AllDigits(s) == \A i \in DOMAIN s : IsDigit(s[i])

-----------------------------------------------------------------------------
(* Cells, and Python's str() and float() on them.  A float is held in      *)
(* hundredths: the price texts of the model carry at most two decimals.    *)

StrCell(s) == [t |-> "str", s |-> s, n |-> 0]
NaN == [t |-> "nan", s |-> <<>>, n |-> 0]
FloatCell(c) == [t |-> "float", s |-> <<>>, n |-> c]
IntCell(v) == [t |-> "int", s |-> <<>>, n |-> v]

\* repr of a float held in hundredths: 8.0, 8.5, 8.25, -5.0
FloatRepr(c) ==
    LET a == IF c < 0 THEN -c ELSE c
        f == a % 100
        frac == IF f % 10 = 0 THEN <<DigitChars[(f \div 10) + 1]>>
                ELSE <<DigitChars[(f \div 10) + 1], DigitChars[(f % 10) + 1]>>
    IN  (IF c < 0 THEN <<"-">> ELSE <<>>) \o NatToStr(a \div 100) \o <<".">> \o frac

\* str(value)
PyStr(cell) ==
    CASE cell.t = "str" -> cell.s
      [] cell.t = "nan" -> <<"n","a","n">>
      [] cell.t = "float" -> FloatRepr(cell.n)
      [] cell.t = "int" -> (IF cell.n < 0 THEN <<"-">> \o NatToStr(-cell.n)
                            ELSE NatToStr(cell.n))

\* float() of the integer digits ip and the fraction digits fp, in hundredths
ParseParts(neg, ip, fp) ==
    IF AllDigits(ip) /\ AllDigits(fp) /\ Len(ip) + Len(fp) >= 1
    THEN Some((IF neg THEN -1 ELSE 1)
              * (100 * StrToNat(ip) + StrToNat(Slice(fp \o <<"0","0">>, 1, 2))))
    ELSE None

ParseDecimal(neg, u) ==
    LET dots == {i \in DOMAIN u : u[i] = "."}
    IN  IF dots = {} THEN ParseParts(neg, u, <<>>)
        ELSE IF Cardinality(dots) > 1 THEN None
        ELSE ParseParts(neg, Slice(u, 1, Min(dots) - 1), Slice(u, Min(dots) + 1, Len(u)))

ParseSigned(s) ==
    IF s # <<>> /\ s[1] \in {"+", "-"} THEN ParseDecimal(s[1] = "-", Tail(s))
    ELSE ParseDecimal(FALSE, s)

\* float(s) for decimal text [+-]?(digits[.digits] | .digits), in hundredths;
\* None stands for ValueError.  (Exponents, "_" and inf/nan spellings are outside
\* the alphabet of the price texts of the model.)
ParseFloat(s0) == ParseSigned(Strip(s0))

\* digits grouped in threes by commas, the "," of the format specification
RECURSIVE Grouped(_)
Grouped(n) ==
    IF n < 1000 THEN NatToStr(n)
    ELSE LET r == n % 1000
         IN  Grouped(n \div 1000) \o <<",">>
             \o <<DigitChars[(r \div 100) + 1], DigitChars[((r \div 10) % 10) + 1],
                  DigitChars[(r % 10) + 1]>>

\* "${:,.2f}".format(value), value in hundredths
FormatMoney(c) ==
    LET a == IF c < 0 THEN -c ELSE c
    IN  <<"$">> \o (IF c < 0 THEN <<"-">> ELSE <<>>) \o Grouped(a \div 100) \o <<".">>
        \o <<DigitChars[((a % 100) \div 10) + 1], DigitChars[(a % 10) + 1]>>

-----------------------------------------------------------------------------
(* Configuration (settings.ini, read at lines 13-22) and module constants. *)

\* config.get("paths", "new_excel_files_path")
INPUT_NEW_PATH == <<"n", "/">>
\* config.get("paths", "old_excel_files_path")
INPUT_OLD_PATH == <<"o", "/">>

\* COLUMNS = ["Title", "Url", "Image", "Price"]
COLUMNS == << <<"T","i","t","l","e">>, <<"U","r","l">>,
              <<"I","m","a","g","e">>, <<"P","r","i","c","e">> >>

KwTitle == <<"t","i","t","l","e">>
KwUrl == <<"u","r","l">>
KwImage == <<"i","m","a","g","e">>
KwPrice == <<"p","r","i","c","e">>

-----------------------------------------------------------------------------
(* Tables.  A table as read is [cols, rows]: the header names and, per     *)
(* row, one cell per header.  After __rename_columns a table is a sequence *)
(* of rows [Title, Url, Image, Price, row]; `row` is the row's number in   *)
(* the file it was read from (history only: no operation reads it).        *)

RECURSIVE Flatten(_)
Flatten(ss) == IF ss = <<>> THEN <<>> ELSE Head(ss) \o Flatten(Tail(ss))

\* DataFrame.dropna(subset=...): rows with an absent cell among `fields` go
DropNa(rows, fields) ==
    SelectSeq(rows, LAMBDA r : \A f \in fields : r[f].t # "nan")

\* DataFrame.astype({"Price": str})
PriceAsStr(rows) ==
    [i \in DOMAIN rows |-> [rows[i] EXCEPT !.Price = StrCell(PyStr(rows[i].Price))]]

-----------------------------------------------------------------------------
(* __get_columns (lines 89-109).                                           *)

\* the chain with "image" tested before "url"
ClassifyImageBeforeUrl(column) ==
    IF ContainsCI(column, KwTitle) THEN "title"
    ELSE IF ContainsCI(column, KwImage) THEN "image"
    ELSE IF ContainsCI(column, KwUrl) THEN "url"
    ELSE IF ContainsCI(column, KwPrice) THEN "price"
    ELSE "none"

\* the if / elif chain of lines 92-99 for one header
Classify(column) ==
    IF ContainsCI(column, KwTitle) THEN "title"
    ELSE IF ContainsCI(column, KwUrl) THEN "url"
    ELSE IF ContainsCI(column, KwImage) THEN "image"
    ELSE IF ContainsCI(column, KwPrice) THEN "price"
    ELSE "none"

\* the value the loop leaves in the local variable `field`: the last header
\* assigned to it, or None when the variable was never bound
Bound(cols, field) ==
    LET hits == {i \in DOMAIN cols : Classify(cols[i]) = field}
    IN  IF hits = {} THEN None ELSE Some(cols[Max(hits)])

FieldOrder == <<"title", "url", "image", "price">>

ColumnsOf(title, url, image, price) ==
    IF None \in {title, url, image, price} THEN None
    ELSE Some([title |-> title[1], url |-> url[1], image |-> image[1], price |-> price[1]])

\* Columns(title=title, url=url, image=image, price=price): the first unbound
\* local, in argument order, raises; the bare except turns that into None
GetColumns(cols) ==
    ColumnsOf(Bound(cols, "title"), Bound(cols, "url"),
              Bound(cols, "image"), Bound(cols, "price"))

\* the name in the exception that line 109 stores in stats.error
MissingColumn(cols) ==
    FieldOrder[Min({k \in 1..4 : Bound(cols, FieldOrder[k]) = None})]

-----------------------------------------------------------------------------
(* __rename_columns (lines 111-116) and __remove_whitespace (125-133).     *)

ColumnIndex(cols, name) == Max({i \in DOMAIN cols : cols[i] = name})

\* the four renamed columns of every row; the other columns are carried by
\* pandas and read by no operation
RenameColumns(table, c) ==
    [i \in DOMAIN table.rows |->
        [Title |-> table.rows[i][ColumnIndex(table.cols, c.title)],
         Url   |-> table.rows[i][ColumnIndex(table.cols, c.url)],
         Image |-> table.rows[i][ColumnIndex(table.cols, c.image)],
         Price |-> table.rows[i][ColumnIndex(table.cols, c.price)],
         row   |-> i]]

RemoveWhitespace(rows) ==
    [i \in DOMAIN rows |->
        [rows[i] EXCEPT !.Price = StrCell(Strip(PyStr(rows[i].Price))),
                        !.Title = StrCell(Strip(PyStr(rows[i].Title)))]]

-----------------------------------------------------------------------------
(* __format_price (lines 135-159).                                         *)

\* Series.str.contains(r"\$*\d+\.*\d*(?![\-])"): some run of "$", digits, dots
\* and digits, at least one digit in the first run of digits, not followed by "-"
PricePattern(s) ==
    \E a \in DOMAIN s : \E b \in a..Len(s) : \E c \in b..Len(s) : \E d \in c..Len(s) :
        /\ AllDigits(Slice(s, a, b))
        /\ \A i \in (b + 1)..c : s[i] = "."
        /\ AllDigits(Slice(s, c + 1, d))
        /\ (d = Len(s) \/ s[d + 1] # "-")

\* line 147: value.strip("$").strip().replace(",", "").replace(" ", "")
CleanPrice(s) == RemoveChar(RemoveChar(Strip(StripChars(s, {"$"})), ","), " ")

\* line 152: re.search(r"\d+.?\d*", value).group(): the first run of digits, one
\* more character of any kind if there is one, and the digits after it
NumericToken(s) ==
    LET ds == {i \in DOMAIN s : IsDigit(s[i])}
        a == Min(ds)
        b == Max({j \in a..Len(s) : AllDigits(Slice(s, a, j))})
        c == IF b < Len(s) /\ s[b + 1] # "\n" THEN b + 1 ELSE b
        d == Max({j \in c..Len(s) : AllDigits(Slice(s, c + 1, j))})
    IN  IF ds = {} THEN None ELSE Some(Slice(s, a, d))

\* the regular expression the specification documents, \d+(\.\d+)?
NumericTokenEscapedDot(s) ==
    LET ds == {i \in DOMAIN s : IsDigit(s[i])}
        a == Min(ds)
        b == Max({j \in a..Len(s) : AllDigits(Slice(s, a, j))})
        fr == {j \in (b + 2)..Len(s) : AllDigits(Slice(s, b + 2, j))}
        d == IF b < Len(s) /\ s[b + 1] = "." /\ fr # {} THEN Max(fr) ELSE b
    IN  IF ds = {} THEN None ELSE Some(Slice(s, a, d))

\* lines 141 and 143
DropDashed(rows) == SelectSeq(rows, LAMBDA r : ~ContainsChar(r.Price.s, "-"))
KeepPriced(rows) == SelectSeq(rows, LAMBDA r : PricePattern(r.Price.s))

\* lines 145-148
CleanRows(rows) ==
    [i \in DOMAIN rows |->
        [rows[i] EXCEPT !.Price = StrCell(CleanPrice(PyStr(rows[i].Price)))]]

\* lines 155-157 on the tokens of the rows
ToMoney(rows, vals) ==
    IF \E i \in DOMAIN vals : vals[i] = None
    THEN [exc |-> Some("ValueError"), rows |-> <<>>]
    ELSE [exc |-> None,
          rows |-> [i \in DOMAIN rows |->
                      [rows[i] EXCEPT !.Price = StrCell(FormatMoney(vals[i][1]))]]]

\* lines 150-153: .group() of no match raises
ToFloat(rows, toks) ==
    IF \E i \in DOMAIN toks : toks[i] = None
    THEN [exc |-> Some("AttributeError"), rows |-> <<>>]
    ELSE ToMoney(rows, [i \in DOMAIN toks |-> ParseFloat(toks[i][1])])

ExtractAndFormat(rows) ==
    ToFloat(rows, [i \in DOMAIN rows |-> NumericToken(PyStr(rows[i].Price))])

\* the whole method: [exc, rows]; exc is the exception that leaves it
FormatPrice(rows0) ==
    ExtractAndFormat(CleanRows(KeepPriced(DropDashed(PriceAsStr(DropNa(rows0, {"Price"}))))))

-----------------------------------------------------------------------------
(* __drop_duplicates (lines 161-171).                                      *)

SameKey(a, b) == a.Title = b.Title /\ a.Price = b.Price

SameTitle(a, b) == a.Title = b.Title

\* df1.merge(df2[["Title", "Price"]], on=["Title", "Price"], how="left",
\* indicator=True): every left row once per matching right row ("both"), or
\* once alone ("left_only"), in the order of the left rows
LeftMerge(l, r) ==
    Flatten([i \in DOMAIN l |->
        LET m == SelectSeq(r, LAMBDA x : SameKey(l[i], x))
        IN  IF m = <<>> THEN << [rec |-> l[i], merge |-> "left_only"] >>
            ELSE [j \in DOMAIN m |-> [rec |-> l[i], merge |-> "both"]]])

DropNaKeys(rows) == PriceAsStr(DropNa(rows, {"Title", "Price"}))

\* a merge on the title alone
DropDuplicatesTitleOnly(df1, df2) ==
    SelectSeq(DropNaKeys(df1),
              LAMBDA x : \A j \in DOMAIN df2 : ~SameTitle(x, df2[j]))

\* .query('_merge == "left_only"') and .drop(columns="_merge")
LeftOnly(merged) ==
    LET only == SelectSeq(merged, LAMBDA x : x.merge = "left_only")
    IN  [i \in DOMAIN only |-> only[i].rec]

DropDuplicates(df1, df2) == LeftOnly(LeftMerge(DropNaKeys(df1), DropNaKeys(df2)))

-----------------------------------------------------------------------------
(* Files.  A file is [path, readable, cols, rows]: its path as __get_files *)
(* builds it, whether the tabular reader can parse it, and its content.    *)

ExtXlsx == <<"x","l","s","x">>
ExtCsv == <<"c","s","v">>

\* re.search(r".xlsx$", path, re.I): any character but a newline, then the letters
DotExt(path, ext) ==
    /\ EndsWithCI(path, ext)
    /\ Len(path) > Len(ext)
    /\ path[Len(path) - Len(ext)] # "\n"

\* the filter of __get_files (line 64): re.search(r"(csv|xlsx)$", file, re.I)
Listed(name) == EndsWithCI(name, ExtCsv) \/ EndsWithCI(name, ExtXlsx)

\* __read_file (lines 118-123): [exc, table]; table is None for a path with neither
\* extension, and the reader raises on a file it cannot parse
ReadFile(file) ==
    IF DotExt(file.path, ExtXlsx) \/ DotExt(file.path, ExtCsv)
    THEN IF file.readable
         THEN [exc |-> None, table |-> Some([cols |-> file.cols, rows |-> file.rows])]
         ELSE [exc |-> Some("ParserError"), table |-> None]
    ELSE [exc |-> None, table |-> None]

\* str.split(sep)[-1]: what follows the last occurrence of sep
SplitLast(s, sep) ==
    LET occ == {i \in 1..(Len(s) - Len(sep) + 1) : Slice(s, i, i + Len(sep) - 1) = sep}
    IN  IF occ = {} THEN s ELSE Slice(s, Max(occ) + Len(sep), Len(s))

-----------------------------------------------------------------------------
(* DOMAIN_RE (line 26) and __get_matching_files (lines 74-87).             *)

\* [a-zA-Z0-9\.\-]
InDomainClass(c) == IsLetter(c) \/ IsDigit(c) \/ c \in {".", "-"}
\* [\w\-\.]
InTailClass(c) == IsWord(c) \/ c \in {"-", "."}

\* \.(csv|xlsx)$ at position k
ExtensionAt(s, k) ==
    /\ s[k] = "."
    /\ \E ext \in {ExtCsv, ExtXlsx} :
          /\ Len(s) - k = Len(ext)
          /\ \A j \in 1..Len(ext) : Lower(s[k + j]) = Lower(ext[j])

\* DOMAIN_RE matches with group 1 = s[a..e]
DomainMatchAt(s, a, e) ==
    /\ \A i \in a..e : InDomainClass(s[i])
    /\ (e = Len(s) \/ s[e + 1] # "/")
    /\ \E k \in (e + 1)..Len(s) :
          /\ \A i \in (e + 1)..(k - 1) : InTailClass(s[i])
          /\ ExtensionAt(s, k)

DomainStarts(s) == {a \in DOMAIN s : \E e \in a..Len(s) : DomainMatchAt(s, a, e)}

DomainFrom(s, a) == Slice(s, a, Max({e \in a..Len(s) : DomainMatchAt(s, a, e)}))

DomainOf(s, starts) == IF starts = {} THEN None ELSE Some(DomainFrom(s, Min(starts)))

\* DOMAIN_RE.search(path): the leftmost start, and from it the longest group 1
\* (the group is greedy); None when the pattern matches nowhere
DomainSearch(s) == DomainOf(s, DomainStarts(s))

\* the domain taken as a literal: re.search(re.escape(domain), file, re.I)
DomainPatternLiteral(domain, path) == ContainsCI(path, domain)

\* re.search(rf"{domain}", file, re.I): the domain is read as a pattern; of the
\* characters a domain can hold only "." is special (any character but a newline)
DomainPattern(domain, path) ==
    \E i \in 0..(Len(path) - Len(domain)) :
        \A j \in 1..Len(domain) :
            IF domain[j] = "." THEN path[i + j] # "\n"
            ELSE Lower(path[i + j]) = Lower(domain[j])

\* lines 77-87 for the match m of line 75; .group(1) of no match raises
MatchingFor(m, olds) ==
    IF m = None
    THEN [exc |-> Some("AttributeError"), files |-> None]
    ELSE [exc |-> None,
          files |-> Some([domain |-> m[1],
                          file_paths |-> SelectSeq(olds,
                              LAMBDA f : DomainPattern(m[1], f.path))])]

\* __get_matching_files: [exc, files]
GetMatchingFiles(new_file, olds) == MatchingFor(DomainSearch(new_file), olds)

-----------------------------------------------------------------------------
(* __process_matching_files (lines 173-198).                               *)

\* lines 191-196: the merge, and the break on an empty table
CompareMerged(cur, file, old, out) ==
    [exc |-> None, df |-> out,
     cmp |-> << [old |-> file.path, left |-> DropNaKeys(cur),
                 right |-> DropNaKeys(old)] >>,
     stop |-> out = <<>>]

\* line 189
CompareFormatted(cur, file, fp) ==
    IF fp.exc # None
    THEN [exc |-> fp.exc, df |-> cur, cmp |-> <<>>, stop |-> TRUE]
    ELSE CompareMerged(cur, file, fp.rows, DropDuplicates(cur, fp.rows))

\* lines 183-187: a historical file without the four columns is passed over
CompareTable(cur, file, table, cols) ==
    IF cols = None
    THEN [exc |-> None, df |-> cur, cmp |-> <<>>, stop |-> FALSE]
    ELSE CompareFormatted(cur, file,
             FormatPrice(RemoveWhitespace(RenameColumns(table, cols[1]))))

\* lines 179-181
CompareRead(cur, file, rd) ==
    IF rd.exc # None
    THEN [exc |-> rd.exc, df |-> cur, cmp |-> <<>>, stop |-> TRUE]
    ELSE IF rd.table = None
    THEN [exc |-> Some("AttributeError"), df |-> cur, cmp |-> <<>>, stop |-> TRUE]
    ELSE CompareTable(cur, file, rd.table[1], GetColumns(rd.table[1].cols))

\* one turn of the loop for the historical file `file`: [exc, df, cmp, stop]
CompareTo(cur, file) == CompareRead(cur, file, ReadFile(file))

Prepend(cmp, r) == [exc |-> r.exc, df |-> r.df, cmp |-> cmp \o r.cmp]

RECURSIVE ProcessMatchingFiles(_, _)

\* after one turn: the loop ends on an exception or the break, or goes on
ProcessRest(one, rest) ==
    IF one.stop THEN [exc |-> one.exc, df |-> one.df, cmp |-> one.cmp]
    ELSE Prepend(one.cmp, ProcessMatchingFiles(one.df, rest))

\* the whole loop: [exc, df, cmp]; cmp lists the pairs of tables it merged
ProcessMatchingFiles(cur, files) ==
    IF files = <<>> THEN [exc |-> None, df |-> cur, cmp |-> <<>>]
    ELSE ProcessRest(CompareTo(cur, Head(files)), Tail(files))

-----------------------------------------------------------------------------
(* __str_to_float (lines 200-208) and __combine_price_columns (210-221).   *)

NoneCell == [t |-> "none", s |-> <<>>, n |-> 0]

\* `if value:` of line 202: zero numbers and empty text are false, NaN is true
Truthy(cell) ==
    CASE cell.t = "str" -> cell.s # <<>>
      [] cell.t = "nan" -> TRUE
      [] cell.t = "float" -> cell.n # 0
      [] cell.t = "int" -> cell.n # 0

\* line 208: float() of the text, ValueError when it is no number
TextToFloat(v) ==
    IF v = None THEN [exc |-> Some("ValueError"), val |-> NoneCell]
    ELSE [exc |-> None, val |-> FloatCell(v[1])]

\* __str_to_float: [exc, val]; val is a float, NaN, or None
StrToFloat(cell) ==
    IF ~Truthy(cell) THEN [exc |-> None, val |-> NoneCell]
    ELSE IF cell.t \in {"float", "nan"} THEN [exc |-> None, val |-> cell]
    ELSE IF cell.t = "int" THEN [exc |-> None, val |-> FloatCell(100 * cell.n)]
    ELSE TextToFloat(ParseFloat(
             Strip(RemoveChar(RemoveChar(RemoveChar(cell.s, ","), " "), "$"))))

\* DataFrame.min(axis=1) of one row: the least number, absent values skipped
RowMin(cells) ==
    LET nums == {cells[i].n : i \in {j \in DOMAIN cells : cells[j].t = "float"}}
    IN  IF nums = {} THEN NaN ELSE FloatCell(Min(nums))

Indices(s) == [i \in DOMAIN s |-> i]

\* line 211: the positions of the headers that match "price"
PriceColumns(cols) ==
    SelectSeq(Indices(cols), LAMBDA i : ContainsCI(cols[i], KwPrice))

\* lines 217-219: the "Price" column set (appended when there was none) and the
\* other price columns dropped
Rebuild(table, pcs, price) ==
    LET has == \E i \in DOMAIN table.cols : table.cols[i] = COLUMNS[4]
        keep == SelectSeq(Indices(table.cols),
                          LAMBDA i : i \notin Range(pcs) \/ table.cols[i] = COLUMNS[4])
    IN  [cols |-> [k \in DOMAIN keep |-> table.cols[keep[k]]]
                  \o (IF has THEN <<>> ELSE <<COLUMNS[4]>>),
         rows |-> [r \in DOMAIN table.rows |->
                     [k \in DOMAIN keep |->
                         IF table.cols[keep[k]] = COLUMNS[4] THEN price[r]
                         ELSE table.rows[r][keep[k]]]
                     \o (IF has THEN <<>> ELSE <<price[r]>>)]]

\* lines 214-219 on the converted cells conv[row][price column]
CombineConverted(table, pcs, conv) ==
    IF \E r \in DOMAIN conv : \E k \in DOMAIN pcs : conv[r][k].exc # None
    THEN [exc |-> Some("ValueError"), table |-> table]
    ELSE [exc |-> None,
          table |-> Rebuild(table, pcs,
                        [r \in DOMAIN conv |->
                            RowMin([k \in DOMAIN pcs |-> conv[r][k].val])])]

CombineWith(table, pcs) ==
    IF Len(pcs) <= 1 THEN [exc |-> None, table |-> table]
    ELSE CombineConverted(table, pcs,
             [r \in DOMAIN table.rows |->
                 [k \in DOMAIN pcs |-> StrToFloat(table.rows[r][pcs[k]])]])

\* __combine_price_columns: [exc, table]
CombinePriceColumns(table) == CombineWith(table, PriceColumns(table.cols))

-----------------------------------------------------------------------------
(* __save_to_csv (lines 223-228).                                          *)

\* config.get("paths", "output_path")
OUTPUT_PATH == <<"o","u","t","/">>

\* str.replace(old, new): every occurrence, left to right
RECURSIVE Replace(_, _, _)
Replace(s, old, new) ==
    IF Len(s) < Len(old) THEN s
    ELSE IF Slice(s, 1, Len(old)) = old
    THEN new \o Replace(Slice(s, Len(old) + 1, Len(s)), old, new)
    ELSE <<s[1]>> \o Replace(Tail(s), old, new)

\* line 224
SaveName(filename) ==
    Replace(Replace(filename, <<".","x","l","s","x">>, <<".","c","s","v">>), <<".","c","s","v">>, <<"_","f","i","l","t","e","r","e","d",".","c","s","v">>)

\* the test of line 265 with the empty table saved too
ShouldSaveAlways(table) == Len(table) >= 0

\* the test of line 265: `if len(df):`
ShouldSave(table) == Len(table) # 0

-----------------------------------------------------------------------------
(* run() (lines 230-279), one action per state of a file's processing.     *)
(* An exception no handler catches ends the process: pc = "Aborted".       *)

LoopHead == {"Start", "Saved", "Empty"}

\* name = file.split(INPUT_NEW_PATH)[-1]
NameOf(file) == SplitLast(file.path, INPUT_NEW_PATH)

Abort(e) ==
    /\ pc' = "Aborted"
    /\ exc' = Some(e)

\* lines 236-240 for the outcome rd of __read_file
ReadOutcome(rd) ==
    IF rd.exc # None
    THEN /\ Abort(rd.exc[1])
         /\ entered' = <<>>
         /\ UNCHANGED <<df, stats>>
    ELSE IF rd.table = None
    THEN \* len(None) of line 238, before the test of line 240
         /\ Abort("TypeError")
         /\ entered' = <<>>
         /\ UNCHANGED <<df, stats>>
    ELSE /\ df' = rd.table[1]
         /\ stats' = [file_name |-> NameOf(new_files[idx]),
                      products_count_before |-> Some(Len(rd.table[1].rows)),
                      products_count_after |-> None,
                      error |-> None]
         /\ pc' = "Read"
         /\ entered' = <<"Read">>
         /\ UNCHANGED exc

\* lines 231-240: the next file is read and its FileStats created
ReadNewFile ==
    /\ pc \in LoopHead
    /\ idx <= Len(new_files)
    /\ ReadOutcome(ReadFile(new_files[idx]))
    /\ UNCHANGED <<new_files, old_files, idx, columns, oldfiles, file_stats, dataframes,
                   saved, stats_csv, compared, arg, ret>>

\* lines 244-253 for the combined table and the columns cs found in it
ColumnsOutcome(table, cs) ==
    IF cs = None
    THEN \* line 109, line 247, and line 249 appends the unbound local
         \* file_stats (bound only at line 275) instead of stats
         /\ stats' = [stats EXCEPT
                        !.error = Some(<<"missing column!", MissingColumn(table.cols)>>),
                        !.products_count_before = None]
         /\ df' = table
         /\ columns' = None
         /\ entered' = Append(entered, "ColumnsMissing")
         /\ Abort("UnboundLocalError")
    ELSE /\ df' = table
         /\ columns' = cs
         /\ pc' = "ColumnsResolved"
         /\ entered' = Append(entered, "ColumnsResolved")
         /\ UNCHANGED <<stats, exc>>

\* line 242 for the outcome cp of __combine_price_columns
CombineOutcome(cp) ==
    IF cp.exc # None
    THEN /\ Abort(cp.exc[1])
         /\ UNCHANGED <<df, stats, columns, entered>>
    ELSE ColumnsOutcome(cp.table, GetColumns(cp.table.cols))

\* lines 242-251: the price columns are combined and the columns resolved
ResolveColumns ==
    /\ pc = "Read"
    /\ CombineOutcome(CombinePriceColumns(df))
    /\ UNCHANGED <<new_files, old_files, idx, oldfiles, file_stats, dataframes,
                   saved, stats_csv, compared, arg, ret>>

NormalizeOutcome(fp) ==
    IF fp.exc # None
    THEN /\ Abort(fp.exc[1])
         /\ UNCHANGED <<df, entered>>
    ELSE /\ df' = fp.rows
         /\ pc' = "PriceNormalized"
         /\ entered' = Append(entered, "PriceNormalized")
         /\ UNCHANGED exc

\* lines 253-257
NormalizePrice ==
    /\ pc = "ColumnsResolved"
    /\ NormalizeOutcome(FormatPrice(RemoveWhitespace(RenameColumns(df, columns[1]))))
    /\ UNCHANGED <<new_files, old_files, idx, stats, columns, oldfiles, file_stats,
                   dataframes, saved, stats_csv, compared, arg, ret>>

MatchOutcome(m) ==
    IF m.exc # None
    THEN /\ Abort(m.exc[1])
         /\ UNCHANGED <<oldfiles, entered>>
    ELSE /\ oldfiles' = m.files
         /\ pc' = "DomainMatched"
         /\ entered' = Append(entered, "DomainMatched")
         /\ UNCHANGED exc

\* line 259
MatchDomain ==
    /\ pc = "PriceNormalized"
    /\ MatchOutcome(GetMatchingFiles(new_files[idx].path, old_files))
    /\ UNCHANGED <<new_files, old_files, idx, df, stats, columns, file_stats,
                   dataframes, saved, stats_csv, compared, arg, ret>>

DedupOutcome(pm) ==
    IF pm.exc # None
    THEN /\ Abort(pm.exc[1])
         /\ UNCHANGED <<df, entered, compared>>
    ELSE /\ df' = pm.df
         /\ compared' = pm.cmp
         /\ pc' = "Deduped"
         /\ entered' = Append(entered, "Deduped")
         /\ UNCHANGED exc

\* line 261
Dedup ==
    /\ pc = "DomainMatched"
    /\ DedupOutcome(ProcessMatchingFiles(df, oldfiles[1].file_paths))
    /\ UNCHANGED <<new_files, old_files, idx, stats, columns, oldfiles, file_stats,
                   dataframes, saved, stats_csv, arg, ret>>

\* lines 263-273
Persist ==
    /\ pc = "Deduped"
    /\ stats' = [stats EXCEPT !.products_count_after = Some(Len(df))]
    /\ IF ShouldSave(df)
       THEN /\ saved' = Append(saved, [name |-> NameOf(new_files[idx]),
                                       path |-> OUTPUT_PATH \o SaveName(NameOf(new_files[idx])),
                                       rows |-> df])
            /\ dataframes' = Append(dataframes, df)
            /\ pc' = "Saved"
            /\ entered' = Append(entered, "Saved")
       ELSE /\ pc' = "Empty"
            /\ entered' = Append(entered, "Empty")
            /\ UNCHANGED <<saved, dataframes>>
    /\ file_stats' = Append(file_stats, stats')
    /\ idx' = idx + 1
    /\ UNCHANGED <<new_files, old_files, df, columns, oldfiles, stats_csv, exc,
                   compared, arg, ret>>

\* lines 275-279, after the last file
Serialize ==
    /\ pc \in LoopHead
    /\ idx > Len(new_files)
    /\ stats_csv' = Some(file_stats)
    /\ pc' = "Done"
    /\ UNCHANGED <<new_files, old_files, idx, df, stats, columns, oldfiles, file_stats,
                   dataframes, saved, exc, entered, compared, arg, ret>>

Next ==
    \/ ReadNewFile
    \/ ResolveColumns
    \/ NormalizePrice
    \/ MatchDomain
    \/ Dedup
    \/ Persist
    \/ Serialize

-----------------------------------------------------------------------------
(* The files of a run.  Every name passes the filter of __get_files, the   *)
(* names of a directory are distinct, and both directories hold at least   *)
(* one file (otherwise Logger.error ends the process in __init__).         *)

Txt(s) == StrCell(s)

StdCols == <<<<"T","i","t","l","e">>, <<"U","r","l">>, <<"I","m","a","g","e">>, <<"P","r","i","c","e">>>>

File(dir, name, readable, cols, rows) ==
    [path |-> dir \o name, readable |-> readable, cols |-> cols, rows |-> rows]

\* two products, history under o/a.b_1.csv and, by the pattern, o/axb.csv
NewAB == File(INPUT_NEW_PATH, <<"a",".","b",".","c","s","v">>, TRUE, StdCols,
    << <<Txt(<<"W">>), Txt(<<"u","1">>), Txt(<<"i","1">>), Txt(<<"$","1","0">>)>>,
       <<Txt(<<"G">>), Txt(<<"u","2">>), Txt(<<"i","2">>), Txt(<<"$","2","0">>)>> >>)
\* one product, already in the history
NewM == File(INPUT_NEW_PATH, <<"m",".","c","s","v">>, TRUE, StdCols,
    << <<Txt(<<"W"," ">>), Txt(<<"u","1">>), Txt(<<"i","1">>), Txt(<<" ","1","0",".","0"," ">>)>> >>)
\* no image column
NewD == File(INPUT_NEW_PATH, <<"d",".","c","s","v">>, TRUE, <<<<"T","i","t","l","e">>, <<"U","r","l">>, <<"P","r","i","c","e">>>>,
    << <<Txt(<<"W">>), Txt(<<"u","1">>), Txt(<<"$","1","0">>)>> >>)
\* listed (the name ends in "csv"), but DOMAIN_RE needs ".csv"
NewE == File(INPUT_NEW_PATH, <<"e","c","s","v">>, TRUE, StdCols,
    << <<Txt(<<"W">>), Txt(<<"u","1">>), Txt(<<"i","1">>), Txt(<<"$","1","0">>)>> >>)
\* a workbook the reader cannot parse
NewF == File(INPUT_NEW_PATH, <<"f",".","x","l","s","x">>, FALSE, StdCols, <<>>)
\* a row without a title and a row without a price
NewG == File(INPUT_NEW_PATH, <<"g",".","c","s","v">>, TRUE, StdCols,
    << <<NaN, Txt(<<"u","1">>), Txt(<<"i","1">>), Txt(<<"$","5">>)>>,
       <<Txt(<<"K">>), Txt(<<"u","2">>), Txt(<<"i","2">>), NaN>> >>)
\* a price with a unit after the number
NewH == File(INPUT_NEW_PATH, <<"h",".","c","s","v">>, TRUE, StdCols,
    << <<Txt(<<"K">>), Txt(<<"u","1">>), Txt(<<"i","1">>), Txt(<<"5"," ","U","S","D">>)>> >>)
\* two price columns
NewK == File(INPUT_NEW_PATH, <<"k",".","x","l","s","x">>, TRUE, StdCols \o <<<<"S","a","l","e"," ","P","r","i","c","e">>>>,
    << <<Txt(<<"W">>), Txt(<<"u","1">>), Txt(<<"i","1">>), Txt(<<"$","1","0">>), Txt(<<"$","8">>)>>,
       <<Txt(<<"Z">>), Txt(<<"u","2">>), Txt(<<"i","2">>), IntCell(0), FloatCell(500)>> >>)

NewCatalogue == {NewAB, NewM, NewD, NewE, NewF, NewG, NewH, NewK}

OldAB == File(INPUT_OLD_PATH, <<"a",".","b","_","1",".","c","s","v">>, TRUE, StdCols,
    << <<Txt(<<"W">>), Txt(<<"u","9">>), Txt(<<"i","9">>), Txt(<<"1","0">>)>> >>)
OldAxB == File(INPUT_OLD_PATH, <<"a","x","b",".","c","s","v">>, TRUE, StdCols,
    << <<Txt(<<"G">>), Txt(<<"u","9">>), Txt(<<"i","9">>), Txt(<<"2","0",".","0","0">>)>> >>)
OldM0 == File(INPUT_OLD_PATH, <<"m","_","0",".","c","s","v">>, TRUE, <<<<"T","i","t","l","e">>, <<"U","r","l">>, <<"P","r","i","c","e">>>>,
    << <<Txt(<<"W">>), Txt(<<"u","9">>), Txt(<<"$","1","0">>)>> >>)
OldM1 == File(INPUT_OLD_PATH, <<"m","_","1",".","c","s","v">>, TRUE, StdCols,
    << <<Txt(<<"W">>), Txt(<<"u","9">>), Txt(<<"i","9">>), Txt(<<"$","1","0">>)>>,
       <<Txt(<<"W">>), Txt(<<"u","8">>), Txt(<<"i","8">>), FloatCell(1000)>> >>)
OldG == File(INPUT_OLD_PATH, <<"g",".","c","s","v">>, TRUE, StdCols,
    << <<NaN, Txt(<<"u","9">>), Txt(<<"i","9">>), Txt(<<"6">>)>> >>)
OldK == File(INPUT_OLD_PATH, <<"k",".","c","s","v">>, TRUE, StdCols,
    << <<Txt(<<"W">>), Txt(<<"u","9">>), Txt(<<"i","9">>), Txt(<<"8">>)>> >>)

OldCatalogue == <<OldAB, OldAxB, OldM0, OldM1, OldG, OldK>>

\* the most files in the "new" directory
MaxNewFiles == 2

\* the sequences of 1..n distinct members of S
Listings(S, n) ==
    {f \in UNION {[1..k -> S] : k \in 1..n} :
        \A i, j \in DOMAIN f : i # j => f[i] # f[j]}

NoCall ==
    /\ arg = None
    /\ ret = None

\* the state __init__ (lines 52-60) leaves, at the head of run()'s loop
Init ==
    /\ new_files \in Listings(NewCatalogue, MaxNewFiles)
    /\ \A i \in DOMAIN new_files : Listed(NameOf(new_files[i]))
    /\ old_files = OldCatalogue
    /\ idx = 1
    /\ pc = "Start"
    /\ df = <<>>
    /\ stats = None
    /\ columns = None
    /\ oldfiles = None
    /\ file_stats = <<>>
    /\ dataframes = <<>>
    /\ saved = <<>>
    /\ stats_csv = None
    /\ exc = None
    /\ entered = <<>>
    /\ compared = <<>>
    /\ NoCall

Spec == Init /\ [][Next]_vars

-----------------------------------------------------------------------------
(* Properties of run().                                                    *)

Last(s) == s[Len(s)]

\* the rows of a new file as __rename_columns hands them on (lines 242-253)
NewSourceRows(file) ==
    RenameColumns(CombinePriceColumns([cols |-> file.cols, rows |-> file.rows]).table,
                  GetColumns(CombinePriceColumns(
                      [cols |-> file.cols, rows |-> file.rows]).table.cols)[1])

\* the rows of a historical file as __rename_columns hands them on (line 185)
OldSourceRows(file) ==
    RenameColumns([cols |-> file.cols, rows |-> file.rows], GetColumns(file.cols)[1])

NewFileNamed(name) == CHOOSE i \in DOMAIN new_files : NameOf(new_files[i]) = name
OldFileAt(path) == CHOOSE i \in DOMAIN old_files : old_files[i].path = path

Present(row) == row.Title.t # "nan" /\ row.Price.t # "nan"

\* C3: when the columns of a new file do not resolve, its stats record, with an
\* absent "before" count and an error message, is appended to the stats list,
\* no later state is entered for the file, and the run goes on.
C3_ColumnsMissingRecordedAndSkipped ==
    "ColumnsMissing" \in Range(entered) =>
        /\ pc # "Aborted"
        /\ exc = None
        /\ Last(entered) = "ColumnsMissing"
        /\ file_stats # <<>>
        /\ Last(file_stats).file_name = stats.file_name
        /\ Last(file_stats).products_count_before = None
        /\ Last(file_stats).error # None

\* C4: a per-file fatal condition (the file cannot be read, or its name holds
\* no domain token) ends only that file's processing: the run is never ended
\* by it, so the later files are processed and the stats are serialized.
C4_FatalFileEndsOnlyItself ==
    pc = "Aborted" =>
        /\ entered # <<>>
        /\ Last(entered) # "PriceNormalized"

\* C5: no row handed to the comparison and no row of an output file comes
\* from a row whose title cell or price cell is absent in its file.
C5_NoAbsentTitleOrPrice ==
    /\ \A j \in DOMAIN saved : \A k \in DOMAIN saved[j].rows :
          Present(NewSourceRows(new_files[NewFileNamed(saved[j].name)])[saved[j].rows[k].row])
    /\ pc = "Deduped" =>
          \A c \in DOMAIN compared :
              /\ \A k \in DOMAIN compared[c].left :
                    Present(NewSourceRows(new_files[idx])[compared[c].left[k].row])
              /\ \A k \in DOMAIN compared[c].right :
                    Present(OldSourceRows(old_files[OldFileAt(compared[c].old)])
                                [compared[c].right[k].row])

\* C7: a file none of whose rows survive is not written and adds no table to
\* self.dataframes, and its stats record, with products_count_after = 0, is
\* still appended; a file is written, and its table appended, exactly when a
\* row survives.
C7_SavedExactlyWhenRowsSurvive ==
    /\ Len(dataframes) = Len(saved)
    /\ \A j \in DOMAIN saved :
          /\ saved[j].rows # <<>>
          /\ dataframes[j] = saved[j].rows
          /\ \E i \in DOMAIN file_stats : file_stats[i].file_name = saved[j].name
    /\ \A i \in DOMAIN file_stats :
          /\ file_stats[i].products_count_after # None
          /\ file_stats[i].products_count_after[1] = 0 =>
                \A j \in DOMAIN saved : saved[j].name # file_stats[i].file_name
          /\ file_stats[i].products_count_after[1] > 0 =>
                \E j \in DOMAIN saved :
                    /\ saved[j].name = file_stats[i].file_name
                    /\ Len(saved[j].rows) = file_stats[i].products_count_after[1]
    /\ pc = "Empty" =>
          /\ df = <<>>
          /\ Last(file_stats) = stats
          /\ stats.products_count_after = Some(0)
    /\ pc = "Saved" =>
          /\ Last(saved).rows = df
          /\ Last(file_stats) = stats
          /\ stats.products_count_after = Some(Len(df))

\* a run in which one file was written and a later one had no row left
C7_Witness ==
    /\ pc = "Empty"
    /\ saved # <<>>
    /\ Len(file_stats) = Len(saved) + 1
    /\ Last(file_stats).products_count_after = Some(0)

-----------------------------------------------------------------------------
(* Single calls.  A specification of one method starts with the method's   *)
(* argument in `arg` and has one action, the call, which leaves the        *)
(* returned value in `ret`; run()'s variables stay as __init__ leaves them.*)

Idle ==
    /\ new_files = <<>>
    /\ old_files = <<>>
    /\ idx = 1
    /\ df = <<>>
    /\ stats = None
    /\ columns = None
    /\ oldfiles = None
    /\ file_stats = <<>>
    /\ dataframes = <<>>
    /\ saved = <<>>
    /\ stats_csv = None
    /\ exc = None
    /\ entered = <<>>
    /\ compared = <<>>

Returns(value) ==
    /\ pc = "call"
    /\ ret' = value
    /\ pc' = "return"
    /\ UNCHANGED <<arg, runVars>>

\* the sequences of 0..n distinct members of S
Listings0(S, n) == {<<>>} \cup Listings(S, n)

\* the sequences of 0..n members of S
Tuples(S, n) == UNION {[1..k -> S] : k \in 0..n}

\* the orders of the members of a sequence
Orders(s) == {[i \in DOMAIN s |-> s[p[i]]] : p \in Permutations(DOMAIN s)}

-----------------------------------------------------------------------------
(* __drop_duplicates on normalized tables: stripped titles, money prices.  *)

\* the most rows of a table handed to __drop_duplicates
MaxRows == 2

SubtractTitles == {<<"W">>, <<"G">>}
SubtractPrices == {FormatMoney(1000), FormatMoney(2000)}

\* the tables of at most n rows, with the links drawn from urls
KeyTables(urls, n) ==
    {[i \in DOMAIN f |-> [Title |-> Txt(f[i][1]), Url |-> Txt(f[i][3]),
                          Image |-> NaN, Price |-> Txt(f[i][2]), row |-> i]] :
        f \in Tuples(SubtractTitles \X SubtractPrices \X urls, n)}

InitSubtract ==
    /\ Idle
    /\ pc = "call"
    /\ arg \in [df1 : KeyTables({<<"u","1">>}, MaxRows), df2 : KeyTables({<<"u","1">>, <<"u","9">>}, MaxRows)]
    /\ ret = None

CallDropDuplicates == Returns(DropDuplicates(arg.df1, arg.df2))

SpecSubtract == InitSubtract /\ [][CallDropDuplicates]_vars

\* C1: subtract(N, H) is exactly the rows of N, in N's order and once each,
\* whose (title, price) pair is the pair of no row of H; the links and images
\* play no part, and subtract(T, T) is empty.
C1_SubtractIsKeyDifference ==
    pc = "return" =>
        /\ ret = SelectSeq(arg.df1,
                     LAMBDA x : \A j \in DOMAIN arg.df2 :
                         x.Title # arg.df2[j].Title \/ x.Price # arg.df2[j].Price)
        /\ (\A i \in DOMAIN arg.df1 : \E j \in DOMAIN arg.df2 :
                /\ arg.df1[i].Title = arg.df2[j].Title
                /\ arg.df1[i].Price = arg.df2[j].Price) => ret = <<>>

\* a key twice in H and once in N, under another link, and a row of N that stays
C1_Witness ==
    /\ pc = "return"
    /\ Len(arg.df1) = 2 /\ Len(arg.df2) = 2
    /\ arg.df2[1].Title = arg.df2[2].Title /\ arg.df2[1].Price = arg.df2[2].Price
    /\ arg.df1[1].Title = arg.df2[1].Title /\ arg.df1[1].Price = arg.df2[1].Price
    /\ arg.df1[1].Url # arg.df2[1].Url
    /\ ret = <<arg.df1[2]>>

-----------------------------------------------------------------------------
(* __get_columns on the header names of a table (distinct, as pandas makes *)
(* them).                                                                  *)

\* the most columns of a table
MaxHeaders == 5

HeaderNames == {<<"T","i","t","l","e">>, <<"U","R","L">>, <<"i","m","a","g","e">>, <<"P","r","i","c","e">>, <<"I","m","a","g","e","U","r","l">>, <<"S","a","l","e"," ","P","r","i","c","e">>, <<"N","a","m","e">>}

InitColumns ==
    /\ Idle
    /\ pc = "call"
    /\ arg \in Listings0(HeaderNames, MaxHeaders)
    /\ ret = None

CallGetColumns == Returns(GetColumns(arg))

SpecColumns == InitColumns /\ [][CallGetColumns]_vars

Keywords == <<KwTitle, KwUrl, KwImage, KwPrice>>

\* the first keyword, in the order title, url, image, price, a header holds
FirstKeyword(h) ==
    IF \E k \in 1..4 : ContainsCI(h, Keywords[k])
    THEN Min({k \in 1..4 : ContainsCI(h, Keywords[k])})
    ELSE 0

HeadersOf(k) == {i \in DOMAIN arg : FirstKeyword(arg[i]) = k}

\* C8: every header counts for the first keyword it holds; there is a mapping
\* exactly when each of the four fields has a header, and the mapping gives
\* each field the last header that counts for it.
C8_ColumnsResolvedByFirstKeyword ==
    pc = "return" =>
        /\ ret # None <=> \A k \in 1..4 : HeadersOf(k) # {}
        /\ ret # None =>
              /\ ret[1].title = arg[Max(HeadersOf(1))]
              /\ ret[1].url = arg[Max(HeadersOf(2))]
              /\ ret[1].image = arg[Max(HeadersOf(3))]
              /\ ret[1].price = arg[Max(HeadersOf(4))]

\* a header with two keywords gives the url field, and of two price headers
\* the later one is taken
C8_Witness ==
    /\ pc = "return"
    /\ ret # None
    /\ ret[1].url = <<"I","m","a","g","e","U","r","l">>
    /\ Cardinality(HeadersOf(4)) = 2
    /\ ret[1].price = arg[Max(HeadersOf(4))]

-----------------------------------------------------------------------------
(* __remove_whitespace and __format_price on a renamed table (lines        *)
(* 255-257).                                                               *)

\* the most rows of a table handed to __format_price
MaxPriceRows == 2

PriceCells == {Txt(<<" ","$","1",",","2","3","4",".","5","0"," ">>), Txt(<<"1","0","-","2","0">>), Txt(<<"$","5">>), NaN, Txt(<<"5"," ","U","S","D">>),
               Txt(<<"1","2",".","5","k","g">>), Txt(<<"c","a","l","l">>), Txt(<<"U","S","$","5">>), Txt(<<"5",".">>),
               FloatCell(800), IntCell(10)}

PriceTables(n) ==
    {[i \in DOMAIN f |-> [Title |-> Txt(<<" ","W">>), Url |-> Txt(<<"u","1">>), Image |-> NaN,
                          Price |-> f[i], row |-> i]] :
        f \in UNION {[1..k -> PriceCells] : k \in 1..n}}

InitPrice ==
    /\ Idle
    /\ pc = "call"
    /\ arg \in PriceTables(MaxPriceRows)
    /\ ret = None

CallFormatPrice == Returns(FormatPrice(RemoveWhitespace(arg)))

SpecPrice == InitPrice /\ [][CallFormatPrice]_vars

\* a row the normalization drops: no price, a "-", or no digit
Unusable(cell) ==
    \/ cell.t = "nan"
    \/ ContainsChar(PyStr(cell), "-")
    \/ \A i \in DOMAIN PyStr(cell) : ~IsDigit(PyStr(cell)[i])

\* the money string of the first numeric token \d+(\.\d+)? of the cleaned text
MoneyOfToken(cell) ==
    FormatMoney(ParseFloat(NumericTokenEscapedDot(CleanPrice(Strip(PyStr(cell))))[1])[1])

ExpectedPrices(rows) ==
    LET kept == SelectSeq(rows, LAMBDA r : ~Unusable(r.Price))
    IN  [i \in DOMAIN kept |->
            [kept[i] EXCEPT !.Price = Txt(MoneyOfToken(kept[i].Price)),
                            !.Title = Txt(Strip(PyStr(kept[i].Title)))]]

\* C6: price normalization raises nothing: every row is dropped (no price, a
\* "-", no digit) or gets the money string of its first numeric token, what
\* follows the token discarded.
C6_NormalizationNeverRaises ==
    pc = "return" =>
        /\ ret.exc = None
        /\ ret.rows = ExpectedPrices(arg)

-----------------------------------------------------------------------------
(* __process_matching_files on a normalized new table and the historical   *)
(* files of its domain, in every order.                                    *)

\* the most historical files of one domain
MaxOldFiles == 3

\* a historical file with a unit after the number
OldUnit == File(INPUT_OLD_PATH, <<"a",".","b","_","2",".","c","s","v">>, TRUE, StdCols,
    << <<Txt(<<"K">>), Txt(<<"u","9">>), Txt(<<"i","9">>), Txt(<<"5"," ","U","S","D">>)>> >>)

HistoryFiles == {OldAB, OldAxB, OldM0, OldM1, OldUnit}

Normalized(file) ==
    FormatPrice(RemoveWhitespace(RenameColumns([cols |-> file.cols, rows |-> file.rows],
                                               GetColumns(file.cols)[1]))).rows

InitHistory ==
    /\ Idle
    /\ pc = "call"
    /\ arg \in [df : {Normalized(NewAB), Normalized(NewM)},
                files : Listings(HistoryFiles, MaxOldFiles)]
    /\ ret = None

CallProcessMatchingFiles == Returns(ProcessMatchingFiles(arg.df, arg.files))

SpecHistory == InitHistory /\ [][CallProcessMatchingFiles]_vars

\* C2: the outcome of processAgainstHistory is the same for every order of
\* the historical files, early exit and passed-over files included.
C2_HistoryOrderIrrelevant ==
    pc = "return" =>
        \A q \in Orders(arg.files) :
            /\ ProcessMatchingFiles(arg.df, q).exc = ret.exc
            /\ ProcessMatchingFiles(arg.df, q).df = ret.df

-----------------------------------------------------------------------------
(* __get_matching_files on a new path and a listing of the old directory.  *)

\* the most files in the "old" directory
MaxOldPaths == 3

Stub(dir, name) == File(dir, name, TRUE, StdCols, <<>>)

MatchNewPaths == {INPUT_NEW_PATH \o <<"a",".","b",".","c","s","v">>, INPUT_NEW_PATH \o <<"a","b","_","1",".","c","s","v">>,
                  INPUT_NEW_PATH \o <<"A","-","B",".","x","l","s","x">>, INPUT_NEW_PATH \o <<"e","c","s","v">>}

MatchOldFiles == {Stub(INPUT_OLD_PATH, <<"a",".","b","_","0",".","c","s","v">>), Stub(INPUT_OLD_PATH, <<"a","x","b",".","c","s","v">>),
                  Stub(INPUT_OLD_PATH, <<"A","B",".","c","s","v">>), Stub(INPUT_OLD_PATH, <<"x","a","b","_","2",".","c","s","v">>),
                  Stub(INPUT_OLD_PATH, <<"a","-","b",".","x","l","s","x">>)}

InitMatch ==
    /\ Idle
    /\ pc = "call"
    /\ arg \in [new_file : MatchNewPaths, olds : Listings(MatchOldFiles, MaxOldPaths)]
    /\ ret = None

CallGetMatchingFiles == Returns(GetMatchingFiles(arg.new_file, arg.olds))

SpecMatch == InitMatch /\ [][CallGetMatchingFiles]_vars

\* C9: the group holds, in listing order, exactly the historical paths that
\* contain the domain token as a case-insensitive literal substring.
C9_MatchesAreLiteralSubstrings ==
    (pc = "return" /\ ret.exc = None) =>
        /\ \A i \in DOMAIN ret.files[1].domain : InDomainClass(ret.files[1].domain[i])
        /\ ret.files[1].file_paths =
              SelectSeq(arg.olds,
                        LAMBDA f : DomainPatternLiteral(ret.files[1].domain, f.path))

-----------------------------------------------------------------------------
(* __combine_price_columns on a table as read.                             *)

\* the most rows of a table handed to __combine_price_columns
MaxCombineRows == 1

CombineCells == {NaN, Txt(<<>>), Txt(<<" ">>), IntCell(0), IntCell(10), FloatCell(500),
                 Txt(<<"$","8">>), Txt(<<"1",",","0","0","0",".","5","0">>)}

\* the header layouts: "Price" among two price headers, two price headers
\* neither of them "Price", one price header
CombineTables(n) ==
    {[cols |-> <<<<"T","i","t","l","e">>, <<"P","r","i","c","e">>, <<"S","a","l","e"," ","P","r","i","c","e">>>>,
      rows |-> [i \in DOMAIN f |-> <<Txt(<<"W">>), f[i][1], f[i][2]>>]] :
        f \in UNION {[1..k -> CombineCells \X CombineCells] : k \in 1..n}}
    \cup
    {[cols |-> <<<<"p","r","i","c","e">>, <<"T","i","t","l","e">>, <<"l","i","s","t"," ","p","r","i","c","e">>>>,
      rows |-> [i \in DOMAIN f |-> <<f[i][1], Txt(<<"W">>), f[i][2]>>]] :
        f \in UNION {[1..k -> CombineCells \X CombineCells] : k \in 1..n}}
    \cup
    {[cols |-> <<<<"T","i","t","l","e">>, <<"P","r","i","c","e">>>>,
      rows |-> [i \in DOMAIN f |-> <<Txt(<<"W">>), f[i]>>]] :
        f \in UNION {[1..k -> CombineCells] : k \in 1..n}}

InitCombine ==
    /\ Idle
    /\ pc = "call"
    /\ arg \in CombineTables(MaxCombineRows)
    /\ ret = None

CallCombinePriceColumns == Returns(CombinePriceColumns(arg))

SpecCombine == InitCombine /\ [][CallCombinePriceColumns]_vars

\* the number a price cell stands for, in hundredths: None for an absent or
\* blank cell, a number as it is (0 too), currency text parsed
NumberOf(cell) ==
    CASE cell.t = "nan" -> None
      [] cell.t = "int" -> Some(100 * cell.n)
      [] cell.t = "float" -> Some(cell.n)
      [] cell.t = "str" ->
            IF Strip(cell.s) = <<>> THEN None
            ELSE ParseFloat(RemoveChar(RemoveChar(RemoveChar(cell.s, ","), " "), "$"))

\* the least of the numbers of the cells, NaN when there is none
LeastOf(cells) ==
    LET nums == {NumberOf(cells[i])[1] :
                    i \in {j \in DOMAIN cells : NumberOf(cells[j]) # None}}
    IN  IF nums = {} THEN NaN ELSE FloatCell(Min(nums))

PriceNamed(cols) == {i \in DOMAIN cols : ContainsCI(cols[i], KwPrice)}

\* C10: with more than one price header every row's Price becomes the least
\* of the numbers in its price cells (absent and blank cells skipped, numbers
\* as they are, 0 included, currency text parsed) and one price column, named
\* "Price", remains; with at most one price header the table is unchanged.
C10_PriceIsRowMinimum ==
    pc = "return" =>
        /\ ret.exc = None
        /\ Cardinality(PriceNamed(arg.cols)) <= 1 => ret.table = arg
        /\ Cardinality(PriceNamed(arg.cols)) > 1 =>
              /\ Cardinality(PriceNamed(ret.table.cols)) = 1
              /\ \A i \in PriceNamed(ret.table.cols) :
                    /\ ret.table.cols[i] = COLUMNS[4]
                    /\ \A r \in DOMAIN arg.rows :
                          ret.table.rows[r][i] =
                              LeastOf([k \in 1..Cardinality(PriceNamed(arg.cols)) |->
                                  arg.rows[r][CHOOSE c \in PriceNamed(arg.cols) :
                                      Cardinality({x \in PriceNamed(arg.cols) : x < c}) = k - 1]])

====
